---- MODULE Spec2Model ----
(***************************************************************************)
(* The seven plotting scripts of simulation/scripts: alexa.py, bloom.py,   *)
(* evolution_bloom.py, hosts.py, hosts_evolution.py, leaves.py, real.py.   *)
(*                                                                         *)
(* Each script is straight-line module-level code.  A script is modelled   *)
(* as the sequence of its executable statements (one record per source     *)
(* line that touches sys.argv, the input file, a data series or            *)
(* matplotlib), and a run of a script as an interpreter that executes one  *)
(* statement per step.  Assignments of literals that are only used as      *)
(* arguments (palette, width, xlabel_name, ...) are folded into the        *)
(* statement that uses them.                                               *)
(*                                                                         *)
(* Numbers are exact rationals [n, d]; floating-point rounding of pandas   *)
(* and numpy is not modelled.  Bar offsets (ind + k*width) and colours     *)
(* are cosmetic and left out of the recorded drawing calls.                *)
(*                                                                         *)
(* Library behaviour the scripts rely on (pandas/numpy/matplotlib):        *)
(*   - pd.read_csv and np.loadtxt raise on a missing file;                 *)
(*   - data.loc[:, c] raises KeyError when c is not a column;              *)
(*   - np.loadtxt (ndmin=0) squeezes a single number to a 0-d array, on    *)
(*     which np.sort raises AxisError (and len() raises TypeError);        *)
(*   - plot(x, y) raises when len(x) # len(y); bar(x, h) raises unless     *)
(*     h broadcasts against x (len(h) \in {1, len(x)});                    *)
(*   - plt.show() with a display opens the figure window and blocks        *)
(*     until the user closes it; savefig writes the file and returns, or   *)
(*     raises when the directory of its path does not exist.               *)
(***************************************************************************)
EXTENDS Integers, Sequences, FiniteSets, TLC

VARIABLES
    script,     \* the script being run (its file name)
    argv,       \* sys.argv: <<script name, positional arguments...>>
    disk,       \* the content found at the path argv[2] names
    pc,         \* index of the next statement of the script
    status,     \* "idle", "running", "blocked", "usage", "fault", "done"
    faultOp,    \* the kind of statement that raised, "" if none
    data,       \* the value bound to `data` by read_csv / loadtxt
    env,        \* the series variables assigned so far: name -> series
    ylabel,     \* y-axis labels set so far: axis -> text
    drawn,      \* the drawing calls made so far, in order
    notes,      \* the annotation texts added by hosts.py's loop
    iter,       \* the loop counter of hosts.py's annotate loop
    stdout,     \* the lines printed to standard output
    reads,      \* how many input files this run has read
    emits,      \* how many outputs (savefig / show) this run has emitted
    written,    \* the paths this run has written
    shown,      \* the figures this run has displayed
    trace,      \* the phases the run went through (consecutive repeats merged)
    outdir,     \* whether the report directory the charts go to exists
    fs,         \* the output files on disk: path -> chart
    runs,       \* the serial number of the current run
    lastDone    \* per script: serial number of its latest completed run

runVars == <<script, argv, disk, pc, status, faultOp, data, env, ylabel,
             drawn, notes, iter, stdout, reads, emits, written, shown, trace>>
vars == <<runVars, outdir, fs, runs, lastDone>>

(***************************************************************************)
(* Bounds of the input universe.                                           *)
(***************************************************************************)
MaxArgs == 2     \* positional arguments: 0..MaxArgs
MaxVal == 2      \* CSV cells are built from values 0..MaxVal
MaxNums == 3     \* a numbers file holds 0..MaxNums numbers
MaxNum == 2      \* each number of a numbers file is in 0..MaxNum
MaxRuns == 2     \* runs in a sequence of runs

(***************************************************************************)
(* Exact rationals.                                                        *)
(***************************************************************************)
Q(a, b) == [n |-> a, d |-> b]
EqQ(a, b) == a.n * b.d = b.n * a.d
LtQ(a, b) == a.n * b.d < b.n * a.d
AddQ(a, b) == IF a.d = b.d THEN Q(a.n + b.n, a.d)
              ELSE Q(a.n * b.d + b.n * a.d, a.d * b.d)
Min(a, b) == IF a < b THEN a ELSE b

(***************************************************************************)
(* Names.                                                                  *)
(***************************************************************************)
Scripts == {"alexa.py", "bloom.py", "evolution_bloom.py", "hosts.py",
            "hosts_evolution.py", "leaves.py", "real.py"}

PhaseColumns == {"consensus_structured_wall_avg", "decrypt_wall_avg",
                 "reconstruct_wall_avg", "sign_wall_avg"}
LowerComplete == "complete_round_wall_avg"
UpperComplete == "Complete round_wall_avg"
Additional == "additional_data_wall_avg"
Columns == PhaseColumns \cup {LowerComplete, UpperComplete, Additional}

\* the directory six scripts write into
ReportDir == "/home/yabasta/scuola/pdm/report/images/"

(***************************************************************************)
(* Statements.                                                             *)
(***************************************************************************)
\* if len(sys.argv) != 2: print("Usage: ..."); sys.exit()
ArgCheck(l) == [op |-> "argcheck", line |-> l]
\* data = get_data(sys.argv[1])       (pd.read_csv)
ReadCsv(l) == [op |-> "read_csv", line |-> l]
\* data = np.loadtxt(sys.argv[1])
LoadTxt(l) == [op |-> "loadtxt", line |-> l]
\* v = data.loc[:, c]        (k = 1)   or   v = data.loc[:, c]/60  (k = 60)
Loc(l, v, c, k) == [op |-> "loc", line |-> l, var |-> v, col |-> c, div |-> k]
\* sorted_data = np.sort(data)
SortStmt(l) == [op |-> "sort", line |-> l]
\* yvals = np.arange(len(sorted_data))/float(len(sorted_data))
ARange(l) == [op |-> "arange", line |-> l]
\* v = t1 + t2 + ...
SumStmt(l, v, ts) == [op |-> "sum", line |-> l, var |-> v, terms |-> ts]
\* v = s.mean()
MeanStmt(l, v, s) == [op |-> "mean", line |-> l, var |-> v, of |-> s]
\* a matplotlib call that configures the figure and draws no data
Config(l, f) == [op |-> "config", line |-> l, call |-> f]
\* plt.ylabel(text) / axis.set_ylabel(text)
YLabel(l, ax, t) == [op |-> "ylabel", line |-> l, axis |-> ax, text |-> t]
\* axis.bar(ind, y, ...) / axis.plot(ind, y, ...) with len(ind) = xn and
\* y the sum of the variables ts
Draw(l, k, ax, xn, ts, lab) ==
    [op |-> "draw", line |-> l, kind |-> k, axis |-> ax, xvar |-> "",
     xlen |-> xn, terms |-> ts, lit |-> <<>>, label |-> lab]
\* axis.plot(ind, [literal list], ...): entry <<f, b>> is the literal f*b
DrawLit(l, ax, xn, ys, lab) ==
    [op |-> "draw", line |-> l, kind |-> "plot", axis |-> ax, xvar |-> "",
     xlen |-> xn, terms |-> <<>>, lit |-> ys, label |-> lab]
\* plt.plot(xv, yv): both arguments are variables
DrawXY(l, xv, yv) ==
    [op |-> "draw", line |-> l, kind |-> "plot", axis |-> "plt", xvar |-> xv,
     xlen |-> 0, terms |-> <<yv>>, lit |-> <<>>, label |-> ""]
\* plt.axhline(v, ...)
AxHLine(l, ax, v, lab) ==
    [op |-> "axhline", line |-> l, axis |-> ax, var |-> v, label |-> lab]
\* for a, b in zip(ind + 3/2*width, v): ax.annotate(str(int(b)), ...)
Annotate(l, xn, v) == [op |-> "annotate", line |-> l, xlen |-> xn, var |-> v]
\* plt.savefig(path, format="pdf")
SaveFig(l, p) == [op |-> "savefig", line |-> l, path |-> p, format |-> "pdf"]
\* plt.show()
Show(l) == [op |-> "show", line |-> l]

(***************************************************************************)
(* alexa.py                                                                *)
(***************************************************************************)
alexa_output_name == "leaves.pdf"
\* variant: the path is built from output_name as in the other scripts
alexa_savepath_from_output_name == ReportDir \o alexa_output_name
alexa_savepath == "/home/yabasta/scuola/pdm/report/images/leaves_cdf.pdf"
alexa_py ==
    << ArgCheck(9),
       LoadTxt(13),
       SortStmt(14),
       ARange(15),
       DrawXY(16, "sorted_data", "yvals"),
       Config(22, "yaxis.grid"),
       Config(23, "xaxis.grid"),
       Config(24, "yticks"),
       Config(25, "xticks"),
       YLabel(26, "plt", "Cumulative probability"),
       Config(27, "xlabel"),
       Config(29, "tight_layout"),
       SaveFig(30, alexa_savepath) >>

(***************************************************************************)
(* bloom.py                                                                *)
(***************************************************************************)
bloom_x_values == <<64, 128, 256, 512, 1024, 2048>>
bloom_output_name == "bloom.pdf"
bloom_sizes == << <<1, 614>>, <<1, 1227>>, <<1, 2454>>, <<1, 4908>>,
                  <<1, 9816>>, <<1, 19631>> >>
\* variant: savefig is called before the legend is added
bloom_py_savefig_early ==
    << YLabel(19, "plt", "Bloom filter size"),
       Config(20, "xlabel"),
       Config(21, "tick_params"),
       Config(22, "xticks"),
       Config(23, "yaxis.grid"),
       DrawLit(25, "plt", Len(bloom_x_values), bloom_sizes, "Bloom filter size"),
       Config(27, "yscale"),
       Config(29, "tight_layout"),
       SaveFig(31, ReportDir \o bloom_output_name),
       Config(30, "legend") >>
bloom_py ==
    << YLabel(19, "plt", "Bloom filter size"),
       Config(20, "xlabel"),
       Config(21, "tick_params"),
       Config(22, "xticks"),
       Config(23, "yaxis.grid"),
       DrawLit(25, "plt", Len(bloom_x_values), bloom_sizes, "Bloom filter size"),
       Config(27, "yscale"),
       Config(29, "tight_layout"),
       Config(30, "legend"),
       SaveFig(31, ReportDir \o bloom_output_name) >>

(***************************************************************************)
(* evolution_bloom.py                                                      *)
(***************************************************************************)
evolution_bloom_x_values == <<64, 128, 256, 512, 1024, 2048>>
evolution_bloom_sizes ==
    << <<10, 614>>, <<100, 1227>>, <<1000, 2454>>, <<10000, 4908>>,
       <<100000, 9816>>, <<1000000, 19631>> >>
evolution_bloom_py ==
    << ArgCheck(19),
       ReadCsv(24),
       Config(31, "figure"),
       Config(32, "add_subplot"),
       Config(34, "twinx"),
       Config(36, "set_xlabel"),
       YLabel(37, "host", "Time[s]"),
       YLabel(38, "par1", "Bloom filter size"),
       Loc(40, "consensus", "consensus_structured_wall_avg", 1),
       Loc(41, "decrypt", "decrypt_wall_avg", 1),
       Loc(42, "reconstruct", "reconstruct_wall_avg", 1),
       Loc(43, "sign", "sign_wall_avg", 60),
       Loc(44, "complete", "complete_round_wall_avg", 1),
       Draw(51, "plot", "host", Len(evolution_bloom_x_values), <<"consensus">>,
            "Consensus structured"),
       Draw(52, "plot", "host", Len(evolution_bloom_x_values), <<"decrypt">>,
            "Decrypt"),
       Draw(53, "plot", "host", Len(evolution_bloom_x_values), <<"reconstruct">>,
            "Reconstruct"),
       Draw(54, "plot", "host", Len(evolution_bloom_x_values), <<"sign">>,
            "Signature"),
       DrawLit(55, "par1", Len(evolution_bloom_x_values), evolution_bloom_sizes,
               "Bloom filter size"),
       Config(57, "set_yscale"),
       Config(58, "set_xticks"),
       Config(60, "get_yticks"),
       Config(63, "set_yscale"),
       Config(64, "set_yticks"),
       Config(68, "legend"),
       Config(73, "label.set_color"),
       Config(74, "label.set_color"),
       Show(76) >>

(***************************************************************************)
(* hosts.py                                                                *)
(***************************************************************************)
hosts_x_values == <<7, 16, 32, 64>>
hosts_output_name == "hosts.pdf"
hosts_py ==
    << ArgCheck(13),
       ReadCsv(18),
       Loc(28, "consensus", "consensus_structured_wall_avg", 1),
       Loc(29, "decrypt", "decrypt_wall_avg", 1),
       Loc(30, "reconstruct", "reconstruct_wall_avg", 1),
       Loc(31, "sign", "sign_wall_avg", 1),
       Loc(32, "complete", "Complete round_wall_avg", 1),
       Config(44, "subplots"),
       Draw(45, "bar", "ax", Len(hosts_x_values), <<"consensus">>,
            "Consensus structured"),
       Draw(46, "bar", "ax", Len(hosts_x_values), <<"decrypt">>, "Decrypt"),
       Draw(47, "bar", "ax", Len(hosts_x_values), <<"reconstruct">>,
            "Reconstruct"),
       Draw(48, "bar", "ax", Len(hosts_x_values), <<"sign">>, "Signature"),
       Draw(49, "plot", "ax", Len(hosts_x_values), <<"complete">>, "Total"),
       Annotate(50, Len(hosts_x_values), "complete"),
       Config(53, "set_xticks"),
       Config(54, "set_xticklabels"),
       YLabel(55, "ax", "Time [s]"),
       Config(56, "xlabel"),
       Config(57, "tick_params"),
       Config(58, "yaxis.grid"),
       YLabel(59, "ax", "Time [s]"),
       Config(60, "xlabel"),
       Config(61, "tick_params"),
       Config(62, "yaxis.grid"),
       Config(64, "yscale"),
       Config(65, "tight_layout"),
       Config(66, "legend"),
       SaveFig(67, ReportDir \o hosts_output_name) >>

(***************************************************************************)
(* hosts_evolution.py                                                      *)
(***************************************************************************)
hosts_evolution_x_values == <<3, 5, 10, 15, 20>>
hosts_evolution_output_name == "hosts_evolution.pdf"
hosts_evolution_py ==
    << ArgCheck(21),
       ReadCsv(26),
       Loc(34, "consensus", "consensus_structured_wall_avg", 1),
       Loc(35, "decrypt", "decrypt_wall_avg", 1),
       Loc(36, "reconstruct", "reconstruct_wall_avg", 1),
       Loc(37, "sign", "sign_wall_avg", 1),
       Loc(38, "complete", "Complete round_wall_avg", 1),
       YLabel(48, "plt", "Time [s]"),
       Config(49, "xlabel"),
       Config(50, "tick_params"),
       Config(51, "xticks"),
       Config(52, "yaxis.grid"),
       Draw(54, "plot", "plt", Len(hosts_evolution_x_values), <<"consensus">>,
            "Consensus structured"),
       Draw(55, "plot", "plt", Len(hosts_evolution_x_values), <<"decrypt">>,
            "Decrypt"),
       Draw(56, "plot", "plt", Len(hosts_evolution_x_values), <<"reconstruct">>,
            "Reconstruct"),
       Draw(57, "plot", "plt", Len(hosts_evolution_x_values), <<"sign">>,
            "Signature"),
       Draw(58, "plot", "plt", Len(hosts_evolution_x_values),
            <<"consensus", "decrypt", "sign", "consensus">>, "Total"),
       Config(61, "yscale"),
       Config(63, "legend"),
       Config(65, "tight_layout"),
       SaveFig(66, ReportDir \o hosts_evolution_output_name) >>

(***************************************************************************)
(* leaves.py                                                               *)
(***************************************************************************)
leaves_x_values == <<64, 128, 256, 512, 1024, 2048>>
leaves_output_name == "leaves.pdf"
\* variant: the spelling hosts.py uses
leaves_complete_col_upper == "Complete round_wall_avg"
leaves_complete_col == "complete_round_wall_avg"
leaves_py ==
    << ArgCheck(21),
       ReadCsv(26),
       Loc(32, "consensus", "consensus_structured_wall_avg", 1),
       Loc(33, "decrypt", "decrypt_wall_avg", 1),
       Loc(34, "reconstruct", "reconstruct_wall_avg", 1),
       Loc(35, "sign", "sign_wall_avg", 1),
       Loc(36, "complete", leaves_complete_col, 1),
       Config(49, "subplots"),
       Draw(50, "bar", "ax", Len(leaves_x_values), <<"consensus">>,
            "Consensus structured"),
       Draw(51, "bar", "ax", Len(leaves_x_values), <<"decrypt">>, "Decrypt"),
       Draw(52, "bar", "ax", Len(leaves_x_values), <<"reconstruct">>,
            "Reconstruct"),
       Draw(53, "bar", "ax", Len(leaves_x_values), <<"sign">>, "Signature"),
       Draw(54, "plot", "ax", Len(leaves_x_values),
            <<"consensus", "decrypt", "reconstruct", "sign">>, "Total"),
       Config(55, "set_xticks"),
       Config(56, "set_xticklabels"),
       YLabel(58, "ax", "Time [s]"),
       Config(59, "xlabel"),
       Config(60, "tick_params"),
       Config(61, "yscale"),
       Config(62, "yaxis.grid"),
       Config(63, "tight_layout"),
       Config(64, "legend"),
       SaveFig(65, ReportDir \o leaves_output_name) >>

(***************************************************************************)
(* real.py                                                                 *)
(***************************************************************************)
real_x_values == <<1, 2, 3, 4, 5, 6, 7>>
real_output_name == "real.pdf"
real_py ==
    << ArgCheck(12),
       ReadCsv(17),
       Loc(23, "consensus", "consensus_structured_wall_avg", 60),
       Loc(24, "decrypt", "decrypt_wall_avg", 60),
       Loc(25, "reconstruct", "reconstruct_wall_avg", 60),
       Loc(26, "sign", "sign_wall_avg", 60),
       Loc(27, "additional", "additional_data_wall_avg", 60),
       Loc(28, "complete", "Complete round_wall_avg", 60),
       Config(40, "subplots"),
       Draw(41, "bar", "ax", Len(real_x_values), <<"consensus">>,
            "Consensus structured"),
       Draw(42, "bar", "ax", Len(real_x_values), <<"decrypt">>, "Decrypt"),
       Draw(43, "bar", "ax", Len(real_x_values), <<"reconstruct">>,
            "Reconstruct"),
       Draw(44, "bar", "ax", Len(real_x_values), <<"sign">>, "Signature"),
       Draw(45, "bar", "ax", Len(real_x_values), <<"additional">>,
            "Additional"),
       Config(46, "set_xticks"),
       Config(47, "set_xticklabels"),
       YLabel(48, "ax", "Time [m]"),
       Config(49, "xlabel"),
       Config(50, "tick_params"),
       Config(51, "yaxis.grid"),
       SumStmt(53, "total",
               <<"consensus", "decrypt", "reconstruct", "sign", "additional">>),
       MeanStmt(54, "mean", "total"),
       AxHLine(56, "ax", "mean", "Mean"),
       Config(58, "yscale"),
       Config(60, "legend"),
       Config(62, "tight_layout"),
       SaveFig(63, ReportDir \o real_output_name) >>

Prog(s) ==
    CASE s = "alexa.py" -> alexa_py
      [] s = "bloom.py" -> bloom_py
      [] s = "evolution_bloom.py" -> evolution_bloom_py
      [] s = "hosts.py" -> hosts_py
      [] s = "hosts_evolution.py" -> hosts_evolution_py
      [] s = "leaves.py" -> leaves_py
      [] s = "real.py" -> real_py

XLen(s) ==
    CASE s = "alexa.py" -> 0
      [] s = "bloom.py" -> Len(bloom_x_values)
      [] s = "evolution_bloom.py" -> Len(evolution_bloom_x_values)
      [] s = "hosts.py" -> Len(hosts_x_values)
      [] s = "hosts_evolution.py" -> Len(hosts_evolution_x_values)
      [] s = "leaves.py" -> Len(leaves_x_values)
      [] s = "real.py" -> Len(real_x_values)

(***************************************************************************)
(* The input universe: what can be found at the path the argument names.   *)
(***************************************************************************)
NoFile == [exists |-> FALSE, kind |-> "none", header |-> {}, rows |-> <<>>,
           nums |-> <<>>]
CsvFile(h, t) == [exists |-> TRUE, kind |-> "csv", header |-> h, rows |-> t,
                  nums |-> <<>>]
NumFile(ns) == [exists |-> TRUE, kind |-> "numbers", header |-> {},
                rows |-> <<>>, nums |-> ns]

RowCounts == {1} \cup {XLen(s) : s \in Scripts \ {"alexa.py", "bloom.py"}}
Bases == [PhaseColumns -> 0..MaxVal]
DefaultBase == [c \in PhaseColumns |-> 1]
PhaseOrder == <<"consensus_structured_wall_avg", "decrypt_wall_avg",
                "reconstruct_wall_avg", "sign_wall_avg">>

\* row i of the table built from base b: phase cells b[c]*i, the additional
\* cell i, the complete-round cells the sum of the row's other cells
Cell(b, c, i) ==
    IF c \in PhaseColumns THEN b[c] * i
    ELSE IF c = Additional THEN i
    ELSE (b[PhaseOrder[1]] + b[PhaseOrder[2]] + b[PhaseOrder[3]]
          + b[PhaseOrder[4]] + 1) * i
Table(h, b, n) == [i \in 1..n |-> [c \in h |-> Cell(b, c, i)]]

HeaderFiles == {CsvFile(h, Table(h, DefaultBase, n)) :
                    h \in SUBSET Columns, n \in RowCounts}
DataFiles == {CsvFile(Columns, Table(Columns, b, n)) :
                    b \in Bases, n \in RowCounts}
NumberFiles == {NumFile(ns) :
                    ns \in UNION {[1..k -> 0..MaxNum] : k \in 0..MaxNums}}
Files == {NoFile} \cup HeaderFiles \cup DataFiles \cup NumberFiles

\* a well-formed input for script s
GoodFile(s) ==
    IF s = "alexa.py" THEN NumFile(<<2, 0, 1>>)
    ELSE IF s = "bloom.py" THEN NoFile
    ELSE CsvFile(Columns, Table(Columns, DefaultBase, XLen(s)))
FewFiles == {NoFile} \cup {GoodFile(s) : s \in Scripts}

ArgName(i) == IF i = 1 THEN "input" ELSE "extra"
ArgV(s, k) == <<s>> \o [i \in 1..k |-> ArgName(i)]

(***************************************************************************)
(* What the library calls and the interpreter do.                          *)
(***************************************************************************)
\* variant: extra arguments are tolerated
ArgCountOk_AtLeast(args) == Len(args) >= 2
\* len(sys.argv) != 2 is the usage case
ArgCountOk(args) == Len(args) = 2
UsageLine(args) == "Usage: " \o args[1] \o " csvFile"

NoData == [shape |-> "none", header |-> {}, rows |-> <<>>, vals |-> <<>>]

\* pd.read_csv: FileNotFoundError on a missing file, EmptyDataError on an
\* empty one
ReadCsvFaults(f) == ~f.exists \/ (f.kind = "numbers" /\ f.nums = <<>>)
\* pd.read_csv: the first line is the header, the others are the rows
Frame(f) ==
    IF f.kind = "csv"
    THEN [shape |-> "frame", header |-> f.header, rows |-> f.rows,
          vals |-> <<>>]
    ELSE [shape |-> "frame", header |-> {ToString(f.nums[1])},
          rows |-> [i \in 1..(Len(f.nums) - 1) |->
                        [c \in {ToString(f.nums[1])} |-> f.nums[i + 1]]],
          vals |-> <<>>]

\* variant: a missing file is read as an empty one
LoadTxtFaults_MissingAsEmpty(f) == f.kind = "csv"
\* np.loadtxt: raises on a missing file and on text that is no number
LoadTxtFaults(f) == ~f.exists \/ f.kind = "csv"
\* np.loadtxt: a single number is squeezed to a 0-d array
Array(f) == [shape |-> IF Len(f.nums) = 1 THEN "0d" ELSE "1d", header |-> {},
             rows |-> <<>>, vals |-> f.nums]

\* data.loc[:, c] raises KeyError unless c is a column
LocFaults(frame, c) == c \notin frame.header
Column(frame, c) == [i \in 1..Len(frame.rows) |-> Q(frame.rows[i][c], 1)]
DivSeries(s, k) == [i \in DOMAIN s |-> Q(s[i].n, s[i].d * k)]
AddSeries(a, b) == [i \in DOMAIN a |-> AddQ(a[i], b[i])]

RECURSIVE SumSeries(_, _)
SumSeries(e, ts) ==
    IF Len(ts) = 1 THEN e[ts[1]]
    ELSE AddSeries(SumSeries(e, SubSeq(ts, 1, Len(ts) - 1)), e[ts[Len(ts)]])

RECURSIVE SumQ(_)
SumQ(s) == IF Len(s) = 1 THEN s[1] ELSE AddQ(SumQ(SubSeq(s, 1, Len(s) - 1)), s[Len(s)])
\* Series.mean(); the mean of an empty series is NaN, written 0/0
MeanOf(s) == IF s = <<>> THEN Q(0, 0) ELSE Q(SumQ(s).n, SumQ(s).d * Len(s))

\* np.sort raises on a 0-d array
SortFaults(d) == d.shape = "0d"
Sorted(vals) == SortSeq(vals, LAMBDA a, b : a < b)
ToSeries(vals) == [i \in DOMAIN vals |-> Q(vals[i], 1)]
\* np.arange(n)/float(n)
YVals(n) == [i \in 1..n |-> Q(i - 1, n)]
IndSeries(n) == [i \in 1..n |-> Q(i - 1, 1)]

\* plot needs x and y of one length; bar broadcasts its heights against x
DrawFaults(kind, xn, yn) == IF kind = "plot" THEN xn # yn ELSE yn \notin {1, xn}
\* int(b)
IntPart(q) == q.n \div q.d
\* variant: the chart is saved next to the input file
SaveTarget_FromArg(stmt, args) ==
    IF Len(args) >= 2 THEN args[2] \o ".pdf" ELSE stmt.path
\* the file savefig writes
SaveTarget(stmt, args) == stmt.path
\* savefig raises FileNotFoundError when the directory of the path is missing
\* (every path the scripts name lies in the report directory)
SaveFigFaults(path, dirExists) == ~dirExists
\* variant: saving also waits for the user
Blocks_SaveFigToo(stmt) == stmt.op \in {"show", "savefig"}
\* a call that does not return until the user acts
Blocks(stmt) == stmt.op = "show"

PhaseOf(op) ==
    CASE op \in {"read_csv", "loadtxt"} -> "read"
      [] op \in {"loc", "sort", "arange", "sum", "mean"} -> "derive"
      [] op \in {"config", "ylabel", "draw", "axhline", "annotate"} -> "plot"
      [] op \in {"savefig", "show"} -> "emit"
      [] OTHER -> "args"

(***************************************************************************)
(* The interpreter: one action per kind of statement.                      *)
(***************************************************************************)
Cur == Prog(script)[pc]
Running == status = "running"
At(o) == Running /\ Cur.op = o

\* the statement returned: go on with the next one, or end after the last
Advance ==
    /\ pc' = pc + 1
    /\ status' = IF pc + 1 > Len(Prog(script)) THEN "done" ELSE "running"
    /\ faultOp' = faultOp
    /\ lastDone' = IF pc + 1 > Len(Prog(script))
                   THEN [lastDone EXCEPT ![script] = runs] ELSE lastDone
\* the statement raised: nothing catches it, the process stops here
Raise ==
    /\ pc' = pc
    /\ status' = "fault"
    /\ faultOp' = Cur.op
    /\ lastDone' = lastDone
Phase(p) ==
    trace' = IF trace # <<>> /\ trace[Len(trace)] = p THEN trace
             ELSE Append(trace, p)
\* the figure as it stands
Chart(fmt) == [by |-> script, run |-> runs, format |-> fmt, axes |-> ylabel,
               series |-> drawn, notes |-> notes]

\* if len(sys.argv) != 2: print usage, sys.exit()
UsageExit ==
    /\ At("argcheck")
    /\ ~ArgCountOk(argv)
    /\ stdout' = Append(stdout, UsageLine(argv))
    /\ status' = "usage"
    /\ UNCHANGED <<outdir, script, argv, disk, pc, faultOp, data, env, ylabel, drawn,
                   notes, iter, reads, emits, written, shown, trace, fs, runs,
                   lastDone>>

ArgsAccepted ==
    /\ At("argcheck")
    /\ ArgCountOk(argv)
    /\ Advance
    /\ UNCHANGED <<outdir, script, argv, disk, data, env, ylabel, drawn, notes, iter,
                   stdout, reads, emits, written, shown, trace, fs, runs>>

\* data = get_data(sys.argv[1])
ReadCsvStep ==
    /\ At("read_csv")
    /\ IF ReadCsvFaults(disk)
       THEN Raise /\ UNCHANGED <<data, reads, trace>>
       ELSE Advance /\ data' = Frame(disk) /\ reads' = reads + 1
            /\ Phase("read")
    /\ UNCHANGED <<outdir, script, argv, disk, env, ylabel, drawn, notes, iter, stdout,
                   emits, written, shown, fs, runs>>

\* data = np.loadtxt(sys.argv[1])
LoadTxtStep ==
    /\ At("loadtxt")
    /\ IF LoadTxtFaults(disk)
       THEN Raise /\ UNCHANGED <<data, reads, trace>>
       ELSE Advance /\ data' = Array(disk) /\ reads' = reads + 1
            /\ Phase("read")
    /\ UNCHANGED <<outdir, script, argv, disk, env, ylabel, drawn, notes, iter, stdout,
                   emits, written, shown, fs, runs>>

\* v = data.loc[:, c]   or   v = data.loc[:, c]/60
LocStep ==
    /\ At("loc")
    /\ IF LocFaults(data, Cur.col)
       THEN Raise /\ UNCHANGED <<env, trace>>
       ELSE Advance /\ Phase("derive")
            /\ env' = (Cur.var :> DivSeries(Column(data, Cur.col), Cur.div))
                      @@ env
    /\ UNCHANGED <<outdir, script, argv, disk, data, ylabel, drawn, notes, iter, stdout,
                   reads, emits, written, shown, fs, runs>>

\* sorted_data = np.sort(data)
SortStep ==
    /\ At("sort")
    /\ IF SortFaults(data)
       THEN Raise /\ UNCHANGED <<env, trace>>
       ELSE Advance /\ Phase("derive")
            /\ env' = ("sorted_data" :> ToSeries(Sorted(data.vals))) @@ env
    /\ UNCHANGED <<outdir, script, argv, disk, data, ylabel, drawn, notes, iter, stdout,
                   reads, emits, written, shown, fs, runs>>

\* yvals = np.arange(len(sorted_data))/float(len(sorted_data))
ARangeStep ==
    /\ At("arange")
    /\ Advance /\ Phase("derive")
    /\ env' = ("yvals" :> YVals(Len(env["sorted_data"]))) @@ env
    /\ UNCHANGED <<outdir, script, argv, disk, data, ylabel, drawn, notes, iter, stdout,
                   reads, emits, written, shown, fs, runs>>

\* total = a + b + ...   and   mean = total.mean()
AssignStep ==
    /\ Running /\ Cur.op \in {"sum", "mean"}
    /\ Advance /\ Phase("derive")
    /\ env' = (Cur.var :> IF Cur.op = "sum" THEN SumSeries(env, Cur.terms)
                          ELSE <<MeanOf(env[Cur.of])>>) @@ env
    /\ UNCHANGED <<outdir, script, argv, disk, data, ylabel, drawn, notes, iter, stdout,
                   reads, emits, written, shown, fs, runs>>

\* a figure-configuring call
ConfigStep ==
    /\ At("config")
    /\ Advance /\ Phase("plot")
    /\ UNCHANGED <<outdir, script, argv, disk, data, env, ylabel, drawn, notes, iter,
                   stdout, reads, emits, written, shown, fs, runs>>

\* plt.ylabel(text) / axis.set_ylabel(text)
YLabelStep ==
    /\ At("ylabel")
    /\ Advance /\ Phase("plot")
    /\ ylabel' = (Cur.axis :> Cur.text) @@ ylabel
    /\ UNCHANGED <<outdir, script, argv, disk, data, env, drawn, notes, iter, stdout,
                   reads, emits, written, shown, fs, runs>>

\* the y argument and the x argument of a drawing call
DrawY(stmt, e) == IF stmt.terms = <<>> THEN <<>> ELSE SumSeries(e, stmt.terms)
DrawX(stmt, e) == IF stmt.xvar = "" THEN IndSeries(stmt.xlen) ELSE e[stmt.xvar]
DrawYLen(stmt, e) ==
    IF stmt.terms = <<>> THEN Len(stmt.lit) ELSE Len(DrawY(stmt, e))

\* axis.bar(...) / axis.plot(...)
DrawStep ==
    /\ At("draw")
    /\ IF DrawFaults(Cur.kind, Len(DrawX(Cur, env)), DrawYLen(Cur, env))
       THEN Raise /\ UNCHANGED <<drawn, trace>>
       ELSE Advance /\ Phase("plot")
            /\ drawn' = Append(drawn,
                   [kind |-> Cur.kind, axis |-> Cur.axis, label |-> Cur.label,
                    x |-> DrawX(Cur, env), y |-> DrawY(Cur, env),
                    lit |-> Cur.lit])
    /\ UNCHANGED <<outdir, script, argv, disk, data, env, ylabel, notes, iter, stdout,
                   reads, emits, written, shown, fs, runs>>

\* plt.axhline(mean, ...)
AxHLineStep ==
    /\ At("axhline")
    /\ Advance /\ Phase("plot")
    /\ drawn' = Append(drawn,
           [kind |-> "axhline", axis |-> Cur.axis, label |-> Cur.label,
            x |-> <<>>, y |-> env[Cur.var], lit |-> <<>>])
    /\ UNCHANGED <<outdir, script, argv, disk, data, env, ylabel, notes, iter, stdout,
                   reads, emits, written, shown, fs, runs>>

\* for a, b in zip(ind + 3/2*width, complete): one iteration, or the exit
LoopBound(stmt, e) == Min(stmt.xlen, Len(e[stmt.var]))
AnnotateIter ==
    /\ At("annotate")
    /\ iter < LoopBound(Cur, env)
    /\ iter' = iter + 1
    /\ notes' = Append(notes, IntPart(env[Cur.var][iter + 1]))
    /\ Phase("plot")
    /\ UNCHANGED <<outdir, script, argv, disk, pc, status, faultOp, data, env, ylabel,
                   drawn, stdout, reads, emits, written, shown, fs, runs,
                   lastDone>>
AnnotateExit ==
    /\ At("annotate")
    /\ iter >= LoopBound(Cur, env)
    /\ iter' = 0
    /\ Advance /\ Phase("plot")
    /\ UNCHANGED <<outdir, script, argv, disk, data, env, ylabel, drawn, notes, stdout,
                   reads, emits, written, shown, fs, runs>>

\* plt.savefig(path, format="pdf")
SaveFigStep ==
    /\ At("savefig")
    /\ ~Blocks(Cur)
    /\ IF SaveFigFaults(SaveTarget(Cur, argv), outdir)
       THEN Raise /\ UNCHANGED <<fs, written, emits, trace>>
       ELSE /\ Advance /\ Phase("emit")
            /\ fs' = (SaveTarget(Cur, argv) :> Chart(Cur.format)) @@ fs
            /\ written' = written \cup {SaveTarget(Cur, argv)}
            /\ emits' = emits + 1
    /\ UNCHANGED <<outdir, script, argv, disk, data, env, ylabel, drawn, notes, iter,
                   stdout, reads, shown, runs>>

\* plt.show(): the window opens and the call waits for the user
ShowStep ==
    /\ Running
    /\ Blocks(Cur)
    /\ status' = "blocked"
    /\ shown' = Append(shown, Chart("window"))
    /\ emits' = emits + 1
    /\ Phase("emit")
    /\ UNCHANGED <<outdir, script, argv, disk, pc, faultOp, data, env, ylabel, drawn,
                   notes, iter, stdout, reads, written, fs, runs, lastDone>>

\* the user closes the figure window: plt.show() returns
CloseWindow ==
    /\ status = "blocked"
    /\ Advance
    /\ UNCHANGED <<outdir, script, argv, disk, data, env, ylabel, drawn, notes, iter,
                   stdout, reads, emits, written, shown, trace, fs, runs>>

\* the interpreter executes the next statement
Step ==
    \/ UsageExit
    \/ ArgsAccepted
    \/ ReadCsvStep
    \/ LoadTxtStep
    \/ LocStep
    \/ SortStep
    \/ ARangeStep
    \/ AssignStep
    \/ ConfigStep
    \/ YLabelStep
    \/ DrawStep
    \/ AxHLineStep
    \/ AnnotateIter
    \/ AnnotateExit
    \/ SaveFigStep
    \/ ShowStep

(***************************************************************************)
(* One run of one script on one input.                                     *)
(***************************************************************************)
Start(s, args, f) ==
    /\ script = s
    /\ argv = args
    /\ disk = f
    /\ pc = 1
    /\ status = "running"
    /\ faultOp = ""
    /\ data = NoData
    /\ env = <<>>
    /\ ylabel = <<>>
    /\ drawn = <<>>
    /\ notes = <<>>
    /\ iter = 0
    /\ stdout = <<>>
    /\ reads = 0
    /\ emits = 0
    /\ written = {}
    /\ shown = <<>>
    /\ trace = <<>>

\* any script, any number of arguments, any input; the report directory
\* is missing only in runs on a well-formed input
Init ==
    /\ \/ /\ outdir = TRUE
          /\ \E s \in Scripts, k \in 0..MaxArgs :
               \E f \in (IF k = 1 THEN Files ELSE FewFiles) :
                  Start(s, ArgV(s, k), f)
       \/ /\ outdir = FALSE
          /\ \E s \in Scripts : Start(s, ArgV(s, 1), GoodFile(s))
    /\ fs = <<>>
    /\ runs = 1
    /\ lastDone = [s \in Scripts |-> 0]

Next == Step \/ CloseWindow

Spec == Init /\ [][Next]_vars

\* Runs under the interpreter's scheduling: it never pauses between two
\* statements, while nothing makes the user close a figure window.  The
\* inputs are the missing file, the numbers files and the CSV files whose
\* header is complete, empty or lacks one column.
LiveHeaders == {Columns, {}} \cup {Columns \ {c} : c \in Columns}
LiveFiles == {NoFile} \cup NumberFiles
             \cup {CsvFile(h, Table(h, DefaultBase, n)) :
                      h \in LiveHeaders, n \in RowCounts}
InitLive ==
    /\ \/ /\ outdir = TRUE
          /\ \E s \in Scripts, k \in 0..MaxArgs :
               \E f \in (IF k = 1 THEN LiveFiles ELSE FewFiles) :
                  Start(s, ArgV(s, k), f)
       \/ /\ outdir = FALSE
          /\ \E s \in Scripts : Start(s, ArgV(s, 1), GoodFile(s))
    /\ fs = <<>>
    /\ runs = 1
    /\ lastDone = [s \in Scripts |-> 0]

FairSpec == InitLive /\ [][Next]_vars /\ WF_vars(Step)

(***************************************************************************)
(* Sequences of runs: the scripts are launched one after another, in any   *)
(* order, and the output files stay on disk between the runs.              *)
(***************************************************************************)
Ended == status \in {"usage", "fault", "done"}

Launch ==
    /\ status = "idle" \/ Ended
    /\ runs < MaxRuns
    /\ \E s \in Scripts, k \in 0..MaxArgs : \E f \in {NoFile, GoodFile(s)} :
         /\ script' = s
         /\ argv' = ArgV(s, k)
         /\ disk' = f
    /\ pc' = 1
    /\ status' = "running"
    /\ faultOp' = ""
    /\ data' = NoData
    /\ env' = <<>>
    /\ ylabel' = <<>>
    /\ drawn' = <<>>
    /\ notes' = <<>>
    /\ iter' = 0
    /\ stdout' = <<>>
    /\ reads' = 0
    /\ emits' = 0
    /\ written' = {}
    /\ shown' = <<>>
    /\ trace' = <<>>
    /\ runs' = runs + 1
    /\ UNCHANGED <<outdir, fs, lastDone>>

InitRuns ==
    /\ script = "none"
    /\ argv = <<>>
    /\ disk = NoFile
    /\ pc = 1
    /\ status = "idle"
    /\ faultOp = ""
    /\ data = NoData
    /\ env = <<>>
    /\ ylabel = <<>>
    /\ drawn = <<>>
    /\ notes = <<>>
    /\ iter = 0
    /\ stdout = <<>>
    /\ reads = 0
    /\ emits = 0
    /\ written = {}
    /\ shown = <<>>
    /\ trace = <<>>
    /\ outdir \in BOOLEAN
    /\ fs = <<>>
    /\ runs = 0
    /\ lastDone = [s \in Scripts |-> 0]

NextRuns == Launch \/ Step \/ CloseWindow

SpecRuns == InitRuns /\ [][NextRuns]_vars

(***************************************************************************)
(* Vocabulary of the properties.                                           *)
(***************************************************************************)
ArgCount == Len(argv) - 1
OneArg == ArgCount = 1
Seq2Set(q) == {q[i] : i \in DOMAIN q}
StmtsOf(s) == Seq2Set(Prog(s))
\* the columns script s looks up
RequiredColumns(s) == {st.col : st \in {t \in StmtsOf(s) : t.op = "loc"}}
\* the index of the last column lookup of s
LastLoc(s) ==
    CHOOSE i \in DOMAIN Prog(s) :
        /\ Prog(s)[i].op = "loc"
        /\ \A j \in DOMAIN Prog(s) : Prog(s)[j].op = "loc" => j <= i
CsvScripts == {"evolution_bloom.py", "hosts.py", "hosts_evolution.py",
               "leaves.py", "real.py"}
FileScripts == Scripts \ {"evolution_bloom.py"}
NoOutput == emits = 0 /\ written = {} /\ shown = <<>>
ExpectedPath(s) ==
    CASE s = "alexa.py" -> "/home/yabasta/scuola/pdm/report/images/leaves_cdf.pdf"
      [] s = "bloom.py" -> "/home/yabasta/scuola/pdm/report/images/bloom.pdf"
      [] s = "hosts.py" -> "/home/yabasta/scuola/pdm/report/images/hosts.pdf"
      [] s = "hosts_evolution.py" ->
             "/home/yabasta/scuola/pdm/report/images/hosts_evolution.pdf"
      [] s = "leaves.py" -> "/home/yabasta/scuola/pdm/report/images/leaves.pdf"
      [] s = "real.py" -> "/home/yabasta/scuola/pdm/report/images/real.pdf"

(***************************************************************************)
(* C1                                                                      *)
(***************************************************************************)
\* what a usage exit looks like: the usage line is the only thing printed,
\* nothing was read, configured, drawn, written or displayed
UsageOutcome ==
    /\ status = "usage"
    /\ stdout = <<UsageLine(argv)>>
    /\ reads = 0 /\ data = NoData /\ trace = <<>> /\ drawn = <<>>
    /\ NoOutput /\ fs = <<>>
NothingDoneYet == pc = 1 /\ status = "running" /\ trace = <<>> /\ NoOutput

\* C1 as stated: every one of the seven scripts, invoked with a number of
\* positional arguments other than one, prints the usage message and exits
\* without reading, drawing, writing or displaying anything.
C1_UsageInAllSeven ==
    ~OneArg => NothingDoneYet \/ UsageOutcome

\* C1 amended: each of the six scripts other than bloom.py, invoked with a
\* number of positional arguments other than one, prints the usage message
\* and exits without reading any input, drawing anything or emitting any
\* chart; bloom.py never looks at its arguments: whatever their number it
\* prints no usage message and goes on to draw its chart and save it (the
\* save is the only step of it that can fault, when the directory is absent).
C1_UsageInSixBloomIgnoresArgs ==
    /\ (script # "bloom.py" /\ ~OneArg) => NothingDoneYet \/ UsageOutcome
    /\ (script # "bloom.py" /\ OneArg) => status # "usage" /\ stdout = <<>>
    /\ script = "bloom.py" =>
          /\ stdout = <<>>
          /\ status \in {"running", "done", "fault"}
          /\ status = "done" => written = {ExpectedPath("bloom.py")}
          /\ status = "fault" =>
                faultOp = "savefig" /\ ~outdir /\ drawn # <<>>

C1_Witness ==
    /\ script = "leaves.py" /\ ArgCount = 2 /\ disk = GoodFile("leaves.py")
    /\ UsageOutcome /\ stdout = <<"Usage: leaves.py csvFile">>

(***************************************************************************)
(* C2                                                                      *)
(***************************************************************************)
Rank(p) == CASE p = "read" -> 1 [] p = "derive" -> 2 [] p = "plot" -> 3
             [] p = "emit" -> 4
\* exactly one output, emitted by the last statement executed
OneOutputLast ==
    /\ emits = 1
    /\ Cardinality(written) + Len(shown) = 1
    /\ trace # <<>> /\ trace[Len(trace)] = "emit"
    /\ \A i \in 1..(Len(trace) - 1) : trace[i] # "emit"
\* one input read, before any series is derived or anything is plotted
OneReadFirst ==
    /\ reads = 1
    /\ trace # <<>> /\ trace[1] = "read"
    /\ \A i \in 2..Len(trace) : trace[i] # "read"

\* C2 as stated: a run that reaches its end went through read-input,
\* derive-series, plot, emit-output in that order, read exactly one input
\* file and emitted exactly one output, last.
C2_ReadDerivePlotEmit ==
    status = "done" =>
        /\ OneReadFirst
        /\ OneOutputLast
        /\ \A i, j \in DOMAIN trace : i < j => Rank(trace[i]) < Rank(trace[j])

\* C2 amended: in every run that reaches its end, at most one input file is
\* read (exactly one by the six scripts that take an input, none by
\* bloom.py), it is read completely before any series is derived or
\* anything is plotted, and exactly one output is emitted, by the last
\* statement, after every plotting call; deriving and plotting are not two
\* separate phases (real.py derives its total and mean after drawing the
\* bars, evolution_bloom.py configures its axes before extracting columns).
C2_OneReadFirstOneOutputLast ==
    status = "done" =>
        /\ IF script = "bloom.py"
           THEN reads = 0 /\ \A i \in DOMAIN trace : trace[i] # "read"
           ELSE OneReadFirst
        /\ OneOutputLast
        /\ pc = Len(Prog(script)) + 1

C2_Witness ==
    /\ status = "done" /\ script = "real.py"
    /\ trace = <<"read", "derive", "plot", "derive", "plot", "emit">>
    /\ reads = 1 /\ emits = 1

(***************************************************************************)
(* C3                                                                      *)
(***************************************************************************)
MissingFile == ~disk.exists
MissingColumn ==
    /\ disk.kind = "csv" /\ script \in CsvScripts
    /\ ~(RequiredColumns(script) \subseteq disk.header)
ReadsInput == script # "bloom.py" /\ OneArg

\* C3: a run of an input-reading script whose file is missing, or whose CSV
\* header lacks a column the script names, stops with an uncaught fault at
\* the read or at the column lookup, and has written no file and displayed
\* no figure.
C3_InputFaultBeforeOutput ==
    (ReadsInput /\ (MissingFile \/ MissingColumn)) =>
        /\ NoOutput /\ fs = <<>>
        /\ status \in {"running", "fault"}
        /\ status = "fault" =>
              /\ faultOp = IF MissingFile THEN Cur.op ELSE "loc"
              /\ Cur.op \in {"read_csv", "loadtxt", "loc"}
              /\ MissingFile => reads = 0
        /\ pc <= IF MissingFile THEN 2 ELSE LastLoc(script)

C3_Witness ==
    /\ script = "hosts_evolution.py" /\ OneArg /\ MissingColumn
    /\ status = "fault" /\ faultOp = "loc" /\ NoOutput

(***************************************************************************)
(* C4                                                                      *)
(***************************************************************************)
CsvRun == OneArg /\ disk.kind = "csv" /\ script \in CsvScripts
HasPhases == PhaseColumns \subseteq disk.header
LowerOnly == LowerComplete \in disk.header /\ UpperComplete \notin disk.header
UpperOnly == UpperComplete \in disk.header /\ LowerComplete \notin disk.header
LowerScripts == {"leaves.py", "evolution_bloom.py"}
UpperScripts == {"hosts.py", "hosts_evolution.py", "real.py"}
LookupFault == status = "fault" /\ faultOp = "loc"
LookupsDone == pc > LastLoc(script)
\* the script's lookups all succeed on this header / one of them raises
Accepts == ~LookupFault /\ (status # "running" => LookupsDone)
Rejects == ~LookupsDone /\ (status # "running" => LookupFault)

\* C4 as stated: with the four phase columns, the lower-case spelling alone
\* is accepted by leaves.py and evolution_bloom.py and rejected by hosts.py,
\* hosts_evolution.py and real.py; the other spelling alone does the
\* opposite; a header with only one spelling is never accepted by all five.
C4_SpellingSplitsScripts ==
    CsvRun =>
        /\ (HasPhases /\ LowerOnly) =>
              IF script \in LowerScripts THEN Accepts ELSE Rejects
        /\ (HasPhases /\ UpperOnly) =>
              IF script \in UpperScripts THEN Accepts ELSE Rejects
        /\ (LowerOnly /\ script \in UpperScripts) => Rejects
        /\ (UpperOnly /\ script \in LowerScripts) => Rejects

\* C4 amended: as stated, except that real.py accepts a header with the
\* four phase columns and 'Complete round_wall_avg' only if the header also
\* contains 'additional_data_wall_avg', which no other script looks up;
\* without it real.py faults on the column lookup too.
C4_SpellingSplitsScriptsRealNeedsAdditional ==
    CsvRun =>
        /\ (HasPhases /\ LowerOnly) =>
              IF script \in LowerScripts THEN Accepts ELSE Rejects
        /\ (HasPhases /\ UpperOnly) =>
              IF script \in UpperScripts
                 /\ (script = "real.py" => Additional \in disk.header)
              THEN Accepts ELSE Rejects
        /\ (LowerOnly /\ script \in UpperScripts) => Rejects
        /\ (UpperOnly /\ script \in LowerScripts) => Rejects

C4_Witness ==
    /\ CsvRun /\ script = "leaves.py" /\ HasPhases /\ LowerOnly
    /\ status = "done"

(***************************************************************************)
(* C5                                                                      *)
(***************************************************************************)
\* C5: evolution_bloom.py alone displays its figure and writes no file;
\* each of the other six, on a run that completes, writes exactly one file,
\* a PDF, at a path fixed by the script whatever the argument and the input.
C5_OneDisplaysSixWriteFixedPdf ==
    /\ shown # <<>> => script = "evolution_bloom.py"
    /\ written # {} => script \in FileScripts
    /\ (status = "done" /\ script = "evolution_bloom.py") =>
          written = {} /\ fs = <<>> /\ Len(shown) = 1
    /\ (status = "done" /\ script \in FileScripts) =>
          /\ shown = <<>>
          /\ written = {ExpectedPath(script)}
          /\ DOMAIN fs = {ExpectedPath(script)}
          /\ fs[ExpectedPath(script)].format = "pdf"
          /\ fs[ExpectedPath(script)].by = script

C5_Witness ==
    /\ status = "done" /\ script = "hosts.py" /\ OneArg
    /\ written = {"/home/yabasta/scuola/pdm/report/images/hosts.pdf"}
    /\ shown = <<>>

(***************************************************************************)
(* C6                                                                      *)
(***************************************************************************)
BlockedInShow ==
    status = "blocked" /\ script = "evolution_bloom.py" /\ Cur.op = "show"

\* C6 as stated: every run of every script ends, in a usage exit, an
\* unhandled fault or after emitting its output; no step can block or loop
\* forever, plt.show() included.
C6_EveryRunEnds == <>Ended

\* C6 amended: every run of the six file-writing scripts ends, in a usage
\* exit, an unhandled fault or after writing its file, and no step of them
\* blocks or loops forever; a run of evolution_bloom.py ends in a usage exit
\* or a fault, or reaches plt.show(), which displays the figure and blocks
\* until the user closes the window, and the run ends as soon as it is
\* closed.
C6_EveryRunEndsOrWaitsInShow ==
    /\ <>(Ended \/ BlockedInShow)
    /\ [][status = "blocked" => BlockedInShow /\ status' = "done"]_vars

C6_Witness ==
    /\ status = "done" /\ script = "hosts.py"
    /\ Len(notes) = Len(hosts_x_values) /\ iter = 0 /\ emits = 1

(***************************************************************************)
(* C7                                                                      *)
(***************************************************************************)
Inputs == disk.nums
Count(q, v) == Cardinality({i \in DOMAIN q : q[i] = v})
\* the fraction of the inputs that are strictly smaller than v
FractionBelow(v) ==
    Q(Cardinality({j \in DOMAIN Inputs : Inputs[j] < v}), Len(Inputs))
AllDistinct == \A i, j \in DOMAIN Inputs : i # j => Inputs[i] # Inputs[j]
\* the curve plt.plot(sorted_data, yvals) drew is the empirical CDF the
\* claim describes
CurveIsCdf ==
    LET x == drawn[1].x
        y == drawn[1].y
        n == Len(Inputs)
    IN  /\ Len(x) = n /\ Len(y) = n
        /\ \A i \in 1..(n - 1) : ~LtQ(x[i + 1], x[i])
        /\ \A v \in 0..MaxNum : Count(x, Q(v, 1)) = Count(Inputs, v)
        /\ \A i \in 1..n : EqQ(y[i], Q(i - 1, n))
        /\ \A i \in 1..(n - 1) : LtQ(y[i], y[i + 1])
        /\ EqQ(y[1], Q(0, 1))
        /\ \A i \in 1..n : LtQ(y[i], Q(1, 1)) /\ ~LtQ(Q(n - 1, n), y[i])
        /\ EqQ(y[n], Q(n - 1, n))
        /\ (\A i \in 1..n : EqQ(y[i], FractionBelow(x[i].n))) <=> AllDistinct
AlexaRun(least) ==
    /\ script = "alexa.py" /\ OneArg
    /\ disk.kind = "numbers" /\ Len(Inputs) >= least

\* C7: on an input of n >= 1 numbers alexa.py plots x = the input sorted in
\* non-decreasing order against y_i = i/n (i from 0): y is strictly
\* increasing from 0 and stays below 1, and y at a value is the fraction of
\* inputs strictly smaller than it, at every point, exactly when the
\* inputs are distinct.
C7_EmpiricalCdf ==
    AlexaRun(1) =>
        /\ status # "fault"
        /\ status = "done" => Len(drawn) = 1 /\ CurveIsCdf

\* the same for n >= 2, where np.loadtxt returns a 1-d array
CdfFromTwoNumbersOn ==
    AlexaRun(2) =>
        /\ status # "fault"
        /\ status = "done" => Len(drawn) = 1 /\ CurveIsCdf
\* a single number makes np.sort raise
SingleNumberFaults ==
    (AlexaRun(1) /\ Len(Inputs) = 1) =>
        /\ status \in {"running", "fault"} /\ NoOutput
        /\ status = "fault" => faultOp = "sort"

(***************************************************************************)
(* C8                                                                      *)
(***************************************************************************)
TotalScripts == {"leaves.py", "hosts_evolution.py"}
\* the sum of the four phase cells of row i of the frame
PhaseSum(i) ==
    data.rows[i]["consensus_structured_wall_avg"]
    + data.rows[i]["decrypt_wall_avg"]
    + data.rows[i]["reconstruct_wall_avg"]
    + data.rows[i]["sign_wall_avg"]

\* C8: in leaves.py and hosts_evolution.py the series drawn with the label
\* 'Total' is, row by row, the sum of the row's four phase values, each
\* counted once.
C8_TotalIsSumOfFourPhases ==
    script \in TotalScripts =>
        \A k \in DOMAIN drawn :
            drawn[k].label = "Total" =>
                \A i \in DOMAIN drawn[k].y :
                    EqQ(drawn[k].y[i], Q(PhaseSum(i), 1))

\* leaves.py alone does add the four phases
TotalIsSumInLeaves ==
    script = "leaves.py" =>
        /\ \A k \in DOMAIN drawn :
              drawn[k].label = "Total" =>
                  \A i \in DOMAIN drawn[k].y :
                      EqQ(drawn[k].y[i], Q(PhaseSum(i), 1))
        /\ status = "done" => \E k \in DOMAIN drawn : drawn[k].label = "Total"

(***************************************************************************)
(* C9                                                                      *)
(***************************************************************************)
DividingScripts ==
    {s \in Scripts : \E st \in StmtsOf(s) : st.op = "loc" /\ st.div = 60}
SeriesColumn ==
    [l \in {"Consensus structured", "Decrypt", "Reconstruct", "Signature",
            "Additional"} |->
        CASE l = "Consensus structured" -> "consensus_structured_wall_avg"
          [] l = "Decrypt" -> "decrypt_wall_avg"
          [] l = "Reconstruct" -> "reconstruct_wall_avg"
          [] l = "Signature" -> "sign_wall_avg"
          [] l = "Additional" -> "additional_data_wall_avg"]
TimeLabels == {"Time [m]", "Time [s]", "Time[s]"}
\* how many seconds the unit an axis label names is
UnitSeconds(label) == IF label = "Time [m]" THEN 60 ELSE 1
\* the timing series drawn on an axis labelled as a time axis
TimingSeries ==
    {k \in DOMAIN drawn :
        /\ drawn[k].label \in DOMAIN SeriesColumn
        /\ drawn[k].axis \in DOMAIN ylabel
        /\ ylabel[drawn[k].axis] \in TimeLabels}

\* C9: in a script that divides a timing column by 60, every timing series
\* drawn on a time axis is the column (in seconds) converted to the unit
\* the axis label names: all in minutes in real.py, all in seconds in
\* evolution_bloom.py.
C9_SeriesInUnitOfAxisLabel ==
    (script \in DividingScripts /\ status \in {"blocked", "done"}) =>
        \A k \in TimingSeries :
            \A i \in DOMAIN drawn[k].y :
                EqQ(drawn[k].y[i],
                    Q(data.rows[i][SeriesColumn[drawn[k].label]],
                      UnitSeconds(ylabel[drawn[k].axis])))

\* real.py alone does convert every series it draws
SeriesInMinutesInReal ==
    (script = "real.py" /\ status = "done") =>
        /\ Cardinality(TimingSeries) = 5
        /\ \A k \in TimingSeries :
              \A i \in DOMAIN drawn[k].y :
                  EqQ(drawn[k].y[i],
                      Q(data.rows[i][SeriesColumn[drawn[k].label]], 60))

(***************************************************************************)
(* C10                                                                     *)
(***************************************************************************)
\* the path script s saves to
OutPath(s) ==
    (CHOOSE st \in StmtsOf(s) : st.op = "savefig").path

\* C10: the six file-writing scripts write to six different paths, so after
\* any sequence of runs the file at a script's path is the chart its own
\* most recent completed run wrote, and no other script has overwritten it.
C10_OwnPathKeepsLatestChart ==
    /\ \A s, t \in FileScripts : s # t => OutPath(s) # OutPath(t)
    /\ \A s \in FileScripts :
          lastDone[s] > 0 =>
              /\ OutPath(s) \in DOMAIN fs
              /\ fs[OutPath(s)].by = s
              /\ fs[OutPath(s)].run = lastDone[s]
    /\ \A p \in DOMAIN fs :
          /\ fs[p].by \in FileScripts
          /\ p = OutPath(fs[p].by)
          /\ fs[p].run = lastDone[fs[p].by]

C10_Witness ==
    /\ lastDone["leaves.py"] = 1 /\ lastDone["alexa.py"] = 2
    /\ DOMAIN fs = {OutPath("leaves.py"), OutPath("alexa.py")}
    /\ fs[OutPath("leaves.py")].by = "leaves.py"
    /\ fs[OutPath("leaves.py")].run = 1
    /\ fs[OutPath("alexa.py")].by = "alexa.py"

====
